---- MODULE Spec2Model ----
(***************************************************************************)
(* Model of src-tauri/src/lib.rs: the local cache table, the sync queue    *)
(* (both SQLite tables behind one Mutex<Connection>), the upload           *)
(* cancellation registry and the progress-reporting upload reader.         *)
(* Text (keys, stored JSON) is a sequence of one-character strings.        *)
(***************************************************************************)
EXTENDS Integers, Sequences, FiniteSets, TLC

VARIABLES
    cache,      \* local_cache table: key -> row [value, updated_at] or NoRow
    queue,      \* sync_queue table: set of rows
    seq,        \* sqlite_sequence entry of sync_queue (AUTOINCREMENT)
    ret,        \* the last store command and what it returned
    lastSet,    \* history: key -> value of the last cache_set not followed by a covering delete
    addLog,     \* history: the ids returned by queue_add, in call order
    delLog,     \* history: the ids queue_delete has returned Ok for, and whether queue_add had issued them
    nLive,      \* history: jobs added and not yet removed
    poisoned,   \* DbState.conn: the Mutex is poisoned
    lock,       \* DbState.conn: the thread holding the MutexGuard (0: free)
    lastRowid,  \* the connection's last_insert_rowid()
    qa,         \* the queue_add calls that run step by step, one record per thread
    cancel_flags, \* UploadState.cancel_flags: upload id -> flag object (0: no entry)
    flags,      \* heap of AtomicBool flag objects, by allocation order
    up,         \* the upload_payment_attachment calls, one record per call slot
    cret,       \* the last cancel_upload call and what it returned
    regHist     \* history: upload id -> the last registry operation on it

storeVars == <<cache, queue, seq, ret, lastSet, addLog, delLog, nLive,
               poisoned, lock, lastRowid, qa>>
uploadVars == <<cancel_flags, flags, up, cret, regHist>>
vars == <<cache, queue, seq, ret, lastSet, addLog, delLog, nLive,
          poisoned, lock, lastRowid, qa,
          cancel_flags, flags, up, cret, regHist>>

----------------------------------------------------------------------------
(* Bounds *)

MaxAdds == 3        \* queue_add calls in a run
MaxClock == 1       \* now_ms() yields 0..MaxClock
NumCalls == 2       \* upload_payment_attachment calls in a run
NumThreads == 2     \* threads that call queue_add step by step

----------------------------------------------------------------------------
(* Text helpers *)

Min(a, b) == IF a < b THEN a ELSE b

Max(a, b) == IF a > b THEN a ELSE b

\* str::starts_with: the literal, case-sensitive prefix relation
StartsWith(s, p) == Len(p) <= Len(s) /\ SubSeq(s, 1, Len(p)) = p

----------------------------------------------------------------------------
(* serde_json::Value, serde_json::to_string and serde_json::from_str *)

JNull == [t |-> "null"]

JNum(n) == [t |-> "num", n |-> n]

JStr(s) == [t |-> "str", s |-> s]

JArr(a) == [t |-> "arr", a |-> a]

\* an object is the sequence of its <<key, value>> members in key order
JObj(o) == [t |-> "obj", o |-> o]

Digits == <<"0", "1", "2", "3", "4", "5", "6", "7", "8", "9">>

IsDigit(c) == \E i \in 1..10 : Digits[i] = c

DigitVal(c) == (CHOOSE i \in 1..10 : Digits[i] = c) - 1

RECURSIVE NumText(_)
NumText(n) == IF n < 10 THEN <<Digits[n + 1]>>
              ELSE NumText(n \div 10) \o <<Digits[(n % 10) + 1]>>

RECURSIVE EscapeText(_)
EscapeText(s) ==
    IF s = <<>> THEN <<>>
    ELSE (IF Head(s) \in {"\"", "\\"} THEN <<"\\", Head(s)>> ELSE <<Head(s)>>)
         \o EscapeText(Tail(s))

StrText(s) == <<"\"">> \o EscapeText(s) \o <<"\"">>

RECURSIVE to_string(_)
RECURSIVE JoinValues(_)
RECURSIVE JoinMembers(_)
to_string(v) ==
    CASE v.t = "null" -> <<"n", "u", "l", "l">>
      [] v.t = "num"  -> NumText(v.n)
      [] v.t = "str"  -> StrText(v.s)
      [] v.t = "arr"  -> <<"[">> \o JoinValues(v.a) \o <<"]">>
      [] v.t = "obj"  -> <<"{">> \o JoinMembers(v.o) \o <<"}">>

JoinValues(a) ==
    IF a = <<>> THEN <<>>
    ELSE to_string(Head(a))
         \o (IF Len(a) > 1 THEN <<",">> ELSE <<>>) \o JoinValues(Tail(a))

JoinMembers(o) ==
    IF o = <<>> THEN <<>>
    ELSE StrText(Head(o)[1]) \o <<":">> \o to_string(Head(o)[2])
         \o (IF Len(o) > 1 THEN <<",">> ELSE <<>>) \o JoinMembers(Tail(o))

\* parse results: [ok, v, rest]
PFail == [ok |-> FALSE, v |-> JNull, rest |-> <<>>]

POk(v, rest) == [ok |-> TRUE, v |-> v, rest |-> rest]

\* the characters after an opening quote, up to the closing quote
RECURSIVE ParseChars(_, _)
ParseChars(s, acc) ==
    IF s = <<>> THEN PFail
    ELSE IF Head(s) = "\"" THEN POk(acc, Tail(s))
    ELSE IF Head(s) = "\\" THEN
        IF Len(s) >= 2 /\ s[2] \in {"\"", "\\"}
        THEN ParseChars(Tail(Tail(s)), Append(acc, s[2]))
        ELSE PFail
    ELSE ParseChars(Tail(s), Append(acc, Head(s)))

RECURSIVE ParseDigits(_, _)
ParseDigits(s, acc) ==
    IF s # <<>> /\ IsDigit(Head(s))
    THEN ParseDigits(Tail(s), acc * 10 + DigitVal(Head(s)))
    ELSE POk(acc, s)

RECURSIVE ParseValue(_)
RECURSIVE ParseElems(_, _)
RECURSIVE ParseMembers(_, _)
ParseValue(s) ==
    IF s = <<>> THEN PFail
    ELSE IF Head(s) = "n" THEN
        IF Len(s) >= 4 /\ SubSeq(s, 1, 4) = <<"n", "u", "l", "l">>
        THEN POk(JNull, SubSeq(s, 5, Len(s))) ELSE PFail
    ELSE IF IsDigit(Head(s)) THEN
        \* a leading zero ends the number
        IF Head(s) = "0" THEN POk(JNum(0), Tail(s))
        ELSE LET r == ParseDigits(s, 0) IN POk(JNum(r.v), r.rest)
    ELSE IF Head(s) = "\"" THEN
        LET r == ParseChars(Tail(s), <<>>)
        IN IF r.ok THEN POk(JStr(r.v), r.rest) ELSE PFail
    ELSE IF Head(s) = "[" THEN
        IF Len(s) >= 2 /\ s[2] = "]" THEN POk(JArr(<<>>), Tail(Tail(s)))
        ELSE ParseElems(Tail(s), <<>>)
    ELSE IF Head(s) = "{" THEN
        IF Len(s) >= 2 /\ s[2] = "}" THEN POk(JObj(<<>>), Tail(Tail(s)))
        ELSE ParseMembers(Tail(s), <<>>)
    ELSE PFail

ParseElems(s, acc) ==
    LET r == ParseValue(s)
    IN IF ~r.ok \/ r.rest = <<>> THEN PFail
       ELSE IF Head(r.rest) = "," THEN ParseElems(Tail(r.rest), Append(acc, r.v))
       ELSE IF Head(r.rest) = "]" THEN POk(JArr(Append(acc, r.v)), Tail(r.rest))
       ELSE PFail

ParseMembers(s, acc) ==
    IF s = <<>> \/ Head(s) # "\"" THEN PFail
    ELSE LET k == ParseChars(Tail(s), <<>>)
         IN IF ~k.ok \/ k.rest = <<>> \/ Head(k.rest) # ":" THEN PFail
            ELSE LET r == ParseValue(Tail(k.rest))
                 IN IF ~r.ok \/ r.rest = <<>> THEN PFail
                    ELSE IF Head(r.rest) = ","
                         THEN ParseMembers(Tail(r.rest), Append(acc, <<k.v, r.v>>))
                    ELSE IF Head(r.rest) = "}"
                         THEN POk(JObj(Append(acc, <<k.v, r.v>>)), Tail(r.rest))
                    ELSE PFail

\* serde_json::from_str(..).unwrap_or(Value::Null): trailing characters are an error
from_str_or_null(s) ==
    LET r == ParseValue(s)
    IN IF r.ok /\ r.rest = <<>> THEN r.v ELSE JNull

----------------------------------------------------------------------------
(* Inputs of the store commands *)

None == <<>>

Some(x) == <<x>>

Keys == { <<"a", "/">>, <<"A", "/">>, <<"a", "b">>, <<"a", "_">> }

Prefixes == { <<>>, <<"a", "/">>, <<"a", "_">>, <<"a", "%">>, <<"A">>, <<"a", "b">> }

Nested == JObj(<< <<(<<"k">>), JArr(<<JNum(12), JStr(<<"é", "\"", "\\">>), JNull>>)>> >>)

EmptyArr == JArr(<<>>)

Values == {Nested, EmptyArr}

Times == 0..MaxClock

\* (action, payload, method, params) of the queue_add calls
JobInputs == { [action |-> "create", payload |-> Nested, method |-> None, params |-> None],
               [action |-> "update", payload |-> EmptyArr, method |-> Some("PUT"),
                params |-> Some(JObj(<< <<(<<"p">>), JNum(7)>> >>))] }

Limits == {None, Some(0), Some(1), Some(2)}

DefaultLimit == 200

----------------------------------------------------------------------------
(* local_cache *)

\* SQLite's ASCII case folding used by LIKE
Fold(c) == IF c = "A" THEN "a" ELSE IF c = "B" THEN "b" ELSE c

\* SQLite LIKE without ESCAPE: '%' matches any run, '_' any one character,
\* every other character matches itself up to ASCII case
RECURSIVE Like(_, _)
Like(pat, s) ==
    IF pat = <<>> THEN s = <<>>
    ELSE IF Head(pat) = "%"
         THEN \E i \in 0..Len(s) : Like(Tail(pat), SubSeq(s, i + 1, Len(s)))
    ELSE IF s = <<>> THEN FALSE
    ELSE IF Head(pat) = "_" THEN Like(Tail(pat), Tail(s))
    ELSE Fold(Head(pat)) = Fold(Head(s)) /\ Like(Tail(pat), Tail(s))

\* DELETE FROM local_cache WHERE key LIKE format!("{}%", prefix)
DeletedByPrefix(rows, prefix) == {r \in rows : Like(prefix \o <<"%">>, r.key)}

Ret(op, arg, val) == [op |-> op, arg |-> arg, val |-> val]

\* conn.lock().map_err(|_| "Database lock poisoned")?: the command returns the
\* error before it prepares or executes a statement
LockPoisoned(op, arg) ==
    /\ ret' = Ret("error", <<op, arg>>, "Database lock poisoned")
    /\ UNCHANGED <<cache, queue, seq, lastSet, addLog, delLog, nLive, lastRowid>>

cache_get(key) ==
    /\ lock = 0
    /\ UNCHANGED <<poisoned, lock, qa>>
    /\ IF poisoned THEN LockPoisoned("cache_get", key)
       ELSE LET rows == {r \in cache : r.key = key}
            IN /\ ret' = Ret("cache_get", key,
                             IF rows # {}
                             THEN LET row == CHOOSE r \in rows : TRUE
                                  IN Some([value |-> from_str_or_null(row.value),
                                           updated_at |-> row.updated_at])
                             ELSE None)
               /\ UNCHANGED <<cache, queue, seq, lastSet, addLog, delLog, nLive, lastRowid>>

\* INSERT OR REPLACE: the row holding the key is deleted before the insert
cache_set(key, value, now) ==
    /\ lock = 0
    /\ UNCHANGED <<poisoned, lock, qa>>
    /\ IF poisoned THEN LockPoisoned("cache_set", key)
       ELSE /\ cache' = {r \in cache : r.key # key}
                        \cup {[key |-> key, value |-> to_string(value), updated_at |-> now]}
            /\ ret' = Ret("cache_set", key, "ok")
            /\ lastSet' = [lastSet EXCEPT ![key] = Some(value)]
            /\ UNCHANGED <<queue, seq, addLog, delLog, nLive, lastRowid>>

cache_delete(key) ==
    /\ lock = 0
    /\ UNCHANGED <<poisoned, lock, qa>>
    /\ IF poisoned THEN LockPoisoned("cache_delete", key)
       ELSE /\ cache' = {r \in cache : r.key # key}
            /\ ret' = Ret("cache_delete", key, "ok")
            /\ lastSet' = [lastSet EXCEPT ![key] = None]
            /\ UNCHANGED <<queue, seq, addLog, delLog, nLive, lastRowid>>

cache_delete_prefix(prefix) ==
    /\ lock = 0
    /\ UNCHANGED <<poisoned, lock, qa>>
    /\ IF poisoned THEN LockPoisoned("cache_delete_prefix", prefix)
       ELSE /\ cache' = cache \ DeletedByPrefix(cache, prefix)
            /\ ret' = Ret("cache_delete_prefix", prefix, "ok")
            /\ lastSet' = [k \in Keys |-> IF StartsWith(k, prefix) THEN None ELSE lastSet[k]]
            /\ UNCHANGED <<queue, seq, addLog, delLog, nLive, lastRowid>>

----------------------------------------------------------------------------
(* sync_queue *)

Ids(rows) == {r.id : r \in rows}

MaxRowid(rows) == IF rows = {} THEN 0 ELSE CHOOSE m \in Ids(rows) : \A i \in Ids(rows) : i <= m

\* INTEGER PRIMARY KEY without AUTOINCREMENT: one more than the largest rowid in the table
NextRowidNoAuto(rows, s) == MaxRowid(rows) + 1

\* INTEGER PRIMARY KEY AUTOINCREMENT: one more than the largest rowid the table ever held
NextRowid(rows, s) == Max(s, MaxRowid(rows)) + 1

\* the row INSERT INTO sync_queue stores for the arguments of queue_add
NewRow(id, in, now) ==
    LET method_value == IF in.method = None THEN "POST" ELSE in.method[1]
        params_value == IF in.params = None THEN JObj(<<>>) ELSE in.params[1]
    IN [id |-> id, action |-> in.action, method |-> method_value,
        params |-> to_string(params_value),
        payload |-> to_string(in.payload), created_at |-> now]

\* the whole command under the guard: the INSERT, then last_insert_rowid()
queue_add(in, now) ==
    /\ lock = 0
    /\ Len(addLog) < MaxAdds
    /\ UNCHANGED <<poisoned, lock, qa>>
    /\ IF poisoned THEN LockPoisoned("queue_add", in)
       ELSE /\ queue' = queue \cup {NewRow(NextRowid(queue, seq), in, now)}
            /\ seq' = NextRowid(queue, seq)
            /\ lastRowid' = NextRowid(queue, seq)
            /\ ret' = Ret("queue_add", in, lastRowid')
            /\ addLog' = Append(addLog, lastRowid')
            /\ nLive' = nLive + 1
            /\ UNCHANGED <<cache, lastSet, delLog>>

\* ORDER BY id ASC
RECURSIVE SortedById(_)
SortedById(rows) ==
    IF rows = {} THEN <<>>
    ELSE LET first == CHOOSE r \in rows : \A o \in rows : r.id <= o.id
         IN <<first>> \o SortedById(rows \ {first})

\* the closure of query_map: one SyncJob per row
SyncJob(row) == [id |-> row.id, action |-> row.action, method |-> row.method,
                 params |-> from_str_or_null(row.params),
                 payload |-> from_str_or_null(row.payload), created_at |-> row.created_at]

\* ORDER BY id DESC LIMIT ?1: the newest rows, newest first
ListedNewestFirst(rows, limit) ==
    LET limit_value == IF limit = None THEN DefaultLimit ELSE limit[1]
        sorted == SortedById(rows)
        n == Len(sorted)
    IN [i \in 1..Min(limit_value, n) |-> SyncJob(sorted[n + 1 - i])]

\* SELECT ... ORDER BY id ASC LIMIT ?1
Listed(rows, limit) ==
    LET limit_value == IF limit = None THEN DefaultLimit ELSE limit[1]
        sorted == SortedById(rows)
    IN [i \in 1..Min(limit_value, Len(sorted)) |-> SyncJob(sorted[i])]

\* a list that takes the rows it returns off the queue
queue_list_drain(limit) ==
    /\ lock = 0
    /\ UNCHANGED <<poisoned, lock, qa>>
    /\ IF poisoned THEN LockPoisoned("queue_list", limit)
       ELSE /\ ret' = Ret("queue_list", limit, Listed(queue, limit))
            /\ queue' = {r \in queue : \A i \in DOMAIN Listed(queue, limit) :
                                           Listed(queue, limit)[i].id # r.id}
            /\ UNCHANGED <<cache, seq, lastSet, addLog, delLog, nLive, lastRowid>>

queue_list(limit) ==
    /\ lock = 0
    /\ UNCHANGED <<poisoned, lock, qa>>
    /\ IF poisoned THEN LockPoisoned("queue_list", limit)
       ELSE /\ ret' = Ret("queue_list", limit, Listed(queue, limit))
            /\ UNCHANGED <<cache, queue, seq, lastSet, addLog, delLog, nLive, lastRowid>>

queue_delete(id) ==
    /\ lock = 0
    /\ UNCHANGED <<poisoned, lock, qa>>
    /\ IF poisoned THEN LockPoisoned("queue_delete", id)
       ELSE /\ queue' = {r \in queue : r.id # id}
            /\ ret' = Ret("queue_delete", id, "ok")
            /\ delLog' = delLog \cup {[id |-> id, issued |-> \E i \in 1..Len(addLog) : addLog[i] = id]}
            /\ nLive' = nLive - Cardinality({r \in queue : r.id = id})
            /\ UNCHANGED <<cache, seq, lastSet, addLog, lastRowid>>

\* a guard that recovers from poisoning (PoisonError::into_inner) and runs the statement
queue_clear_recovering ==
    /\ lock = 0
    /\ UNCHANGED <<poisoned, lock, qa>>
    /\ queue' = {}
    /\ ret' = Ret("queue_clear", None, "ok")
    /\ nLive' = 0
    /\ UNCHANGED <<cache, seq, lastSet, addLog, delLog, lastRowid>>

queue_clear ==
    /\ lock = 0
    /\ UNCHANGED <<poisoned, lock, qa>>
    /\ IF poisoned THEN LockPoisoned("queue_clear", None)
       ELSE /\ queue' = {}
            /\ ret' = Ret("queue_clear", None, "ok")
            /\ nLive' = 0
            /\ UNCHANGED <<cache, seq, lastSet, addLog, delLog, lastRowid>>

\* SELECT MAX(id) FROM sync_queue
CountRowsMaxId(rows) == MaxRowid(rows)

\* SELECT COUNT(*) FROM sync_queue
CountRows(rows) == Cardinality(rows)

queue_count ==
    /\ lock = 0
    /\ UNCHANGED <<poisoned, lock, qa>>
    /\ IF poisoned THEN LockPoisoned("queue_count", None)
       ELSE /\ ret' = Ret("queue_count", None, CountRows(queue))
            /\ UNCHANGED <<cache, queue, seq, lastSet, addLog, delLog, nLive, lastRowid>>

----------------------------------------------------------------------------
(* The guard of the store: poisoning, and queue_add step by step *)

Threads == 1..NumThreads

IdleAdd == [pc |-> "idle", in |-> None, now |-> 0, id |-> 0, n |-> 0]

\* a command panics while it holds the guard: unwinding drops the guard and
\* marks the Mutex poisoned
Poison ==
    /\ lock = 0 /\ ~poisoned
    /\ poisoned' = TRUE
    /\ UNCHANGED <<cache, queue, seq, ret, lastSet, addLog, delLog, nLive, lock, lastRowid, qa>>
    /\ UNCHANGED uploadVars

InFlight == {t \in Threads : qa[t].pc # "idle"}

\* line 236: state.conn.lock(); the thread blocks while another one holds the guard
AddLock(t, in, now) ==
    /\ qa[t].pc = "idle" /\ lock = 0
    /\ Len(addLog) + Cardinality(InFlight) < MaxAdds
    /\ IF poisoned
       THEN /\ ret' = Ret("error", <<"queue_add", in>>, "Database lock poisoned")
            /\ UNCHANGED <<lock, qa>>
       ELSE /\ lock' = t
            /\ qa' = [qa EXCEPT ![t] = [@ EXCEPT !.pc = "locked", !.in = in, !.now = now]]
            /\ UNCHANGED ret
    /\ UNCHANGED <<cache, queue, seq, lastSet, addLog, delLog, nLive, poisoned, lastRowid>>
    /\ UNCHANGED uploadVars

\* a guard held for the INSERT only and dropped before last_insert_rowid()
AddInsertUnlock(t) ==
    /\ qa[t].pc = "locked"
    /\ queue' = queue \cup {NewRow(NextRowid(queue, seq), qa[t].in, qa[t].now)}
    /\ seq' = NextRowid(queue, seq)
    /\ lastRowid' = NextRowid(queue, seq)
    /\ nLive' = nLive + 1
    /\ qa' = [qa EXCEPT ![t] = [@ EXCEPT !.pc = "inserted"]]
    /\ lock' = 0
    /\ UNCHANGED <<cache, ret, lastSet, addLog, delLog, poisoned>>
    /\ UNCHANGED uploadVars

\* lines 243-247: conn.execute(INSERT ...)
AddInsert(t) ==
    /\ qa[t].pc = "locked"
    /\ queue' = queue \cup {NewRow(NextRowid(queue, seq), qa[t].in, qa[t].now)}
    /\ seq' = NextRowid(queue, seq)
    /\ lastRowid' = NextRowid(queue, seq)
    /\ nLive' = nLive + 1
    /\ qa' = [qa EXCEPT ![t] = [@ EXCEPT !.pc = "inserted"]]
    /\ UNCHANGED <<cache, ret, lastSet, addLog, delLog, poisoned, lock>>
    /\ UNCHANGED uploadVars

\* line 248: conn.last_insert_rowid()
AddRowid(t) ==
    /\ qa[t].pc = "inserted"
    /\ qa' = [qa EXCEPT ![t] = [@ EXCEPT !.pc = "read", !.id = lastRowid]]
    /\ UNCHANGED <<cache, queue, seq, ret, lastSet, addLog, delLog, nLive,
                   poisoned, lock, lastRowid>>
    /\ UNCHANGED uploadVars

\* line 249: the guard is dropped and the id is returned
AddReturn(t) ==
    /\ qa[t].pc = "read"
    /\ lock' = IF lock = t THEN 0 ELSE lock
    /\ ret' = Ret("queue_add", qa[t].in, qa[t].id)
    /\ addLog' = Append(addLog, qa[t].id)
    /\ qa' = [qa EXCEPT ![t] = [IdleAdd EXCEPT !.n = qa[t].n + 1]]
    /\ UNCHANGED <<cache, queue, seq, lastSet, delLog, nLive, poisoned, lastRowid>>
    /\ UNCHANGED uploadVars

----------------------------------------------------------------------------
(* Inputs of the upload commands *)

Calls == 1..NumCalls

UploadIds == {"u1", "u2"}

\* body_bytes.len() of the uploads
Totals == {100, 70000}

\* the first call of a run uploads a payload of either size, the later calls a small one
TotalsOf(c) == IF c = 1 THEN Totals ELSE {100}

\* lengths of the buffer the transport hands to read
BufSizes == {32768, 65536}

emit_every == 64 * 1024

----------------------------------------------------------------------------
(* UploadState: the cancellation registry *)

\* Arc::new(AtomicBool::new(false)), inserted under upload_id; the new flag object is returned
\* a register that also stores false in the flag the id had before
register_reset(upload_id) ==
    /\ flags' = Append(IF cancel_flags[upload_id] # 0
                       THEN [flags EXCEPT ![cancel_flags[upload_id]] = FALSE]
                       ELSE flags, FALSE)
    /\ cancel_flags' = [cancel_flags EXCEPT ![upload_id] = Len(flags) + 1]
    /\ regHist' = [regHist EXCEPT ![upload_id] = "register"]

\* a register that keeps the entry an id already has (entry().or_insert)
register_keep_first(upload_id) ==
    /\ flags' = Append(flags, FALSE)
    /\ cancel_flags' = IF cancel_flags[upload_id] # 0 THEN cancel_flags
                       ELSE [cancel_flags EXCEPT ![upload_id] = Len(flags) + 1]
    /\ regHist' = [regHist EXCEPT ![upload_id] = "register"]

register(upload_id) ==
    /\ flags' = Append(flags, FALSE)
    /\ cancel_flags' = [cancel_flags EXCEPT ![upload_id] = Len(flags) + 1]
    /\ regHist' = [regHist EXCEPT ![upload_id] = "register"]

Registered(upload_id) == cancel_flags[upload_id] # 0

\* what cancel returns
cancel_result(upload_id) == Registered(upload_id)

\* a cancel that sets the flag of every entry once its id is found
cancel_all(upload_id) ==
    /\ flags' = IF Registered(upload_id)
                THEN [i \in 1..Len(flags) |->
                        flags[i] \/ \E o \in DOMAIN cancel_flags : cancel_flags[o] = i]
                ELSE flags
    /\ UNCHANGED <<cancel_flags, regHist>>

cancel(upload_id) ==
    /\ flags' = IF Registered(upload_id)
                THEN [flags EXCEPT ![cancel_flags[upload_id]] = TRUE]
                ELSE flags
    /\ UNCHANGED <<cancel_flags, regHist>>

\* a remove that empties the map
remove_all(upload_id) ==
    /\ cancel_flags' = [o \in DOMAIN cancel_flags |-> 0]
    /\ regHist' = [regHist EXCEPT ![upload_id] = "remove"]
    /\ UNCHANGED flags

\* a remove that leaves the entry in the map
remove_keep(upload_id) ==
    /\ regHist' = [regHist EXCEPT ![upload_id] = "remove"]
    /\ UNCHANGED <<cancel_flags, flags>>

remove(upload_id) ==
    /\ cancel_flags' = [cancel_flags EXCEPT ![upload_id] = 0]
    /\ regHist' = [regHist EXCEPT ![upload_id] = "remove"]
    /\ UNCHANGED flags

cancel_upload(upload_id) ==
    /\ cancel(upload_id)
    /\ cret' = [id |-> upload_id, val |-> cancel_result(upload_id)]
    /\ UNCHANGED up
    /\ UNCHANGED storeVars

----------------------------------------------------------------------------
(* ProgressReader and upload_payment_attachment *)

IdleCall == [pc |-> "idle", id |-> "", total |-> 0, flag |-> 0, phase |-> "none",
             pos |-> 0, sent |-> 0, last_emit |-> 0, delivered |-> 0,
             events |-> <<>>, firstRead |-> "none", result |-> "none", removes |-> 0]

\* the closure has ended with a result: the reader, and the log kept of it, are dropped
Closed(u, result) ==
    [IdleCall EXCEPT !.pc = IF result = "ok" THEN "completed" ELSE "failed",
                     !.id = u.id, !.total = u.total, !.flag = u.flag, !.result = result]

\* the call has returned its result: its locals are dropped
Returned(u) ==
    [IdleCall EXCEPT !.pc = "removed", !.id = u.id, !.result = u.result,
                     !.removes = u.removes + 1]

\* ProgressReader::emit: publish the event, then last_emit = sent
\* an emit that leaves last_emit as it was
EmittedNoMark(u, done) ==
    [u EXCEPT !.events = Append(@, [loaded |-> u.sent, total |-> u.total, done |-> done])]

Emitted(u, done) ==
    [u EXCEPT !.events = Append(@, [loaded |-> u.sent, total |-> u.total, done |-> done]),
              !.last_emit = u.sent]

\* the call up to and including register; an empty url returns before it
Start(c, upload_id, total, urlEmpty) ==
    /\ up[c].pc = "idle"
    /\ \A d \in Calls : d < c => up[d].pc # "idle"
    /\ IF urlEmpty
       THEN /\ up' = [up EXCEPT ![c] = [@ EXCEPT !.pc = "rejected", !.id = upload_id,
                                                 !.result = "err_url"]]
            /\ UNCHANGED <<cancel_flags, flags, regHist>>
       ELSE /\ register(upload_id)
            /\ up' = [up EXCEPT ![c] = [@ EXCEPT !.pc = "registered", !.id = upload_id,
                                                 !.total = total, !.flag = Len(flags) + 1]]
    /\ UNCHANGED cret
    /\ UNCHANGED storeVars

\* the closure is entered: ProgressReader::new
Begin(c) ==
    /\ up[c].pc = "registered"
    /\ up' = [up EXCEPT ![c] = [@ EXCEPT !.pc = "streaming", !.phase = "connect"]]
    /\ UNCHANGED <<cancel_flags, flags, cret, regHist>>
    /\ UNCHANGED storeVars

\* send: the transport opens the request; it may fail before it reads the body
Connect(c, ok) ==
    /\ up[c].pc = "streaming" /\ up[c].phase = "connect"
    /\ up' = [up EXCEPT ![c] =
                IF ok THEN [@ EXCEPT !.phase = "check"]
                ELSE Closed(@, "err_transport")]
    /\ UNCHANGED <<cancel_flags, flags, cret, regHist>>
    /\ UNCHANGED storeVars

\* a read that loads the flag only from its second attempt on
ReadCheckSkipFirst(c) ==
    /\ up[c].pc = "streaming" /\ up[c].phase = "check"
    /\ up' = [up EXCEPT ![c] =
                IF flags[up[c].flag] /\ up[c].firstRead # "none"
                THEN [@ EXCEPT !.phase = "interrupted"]
                ELSE [@ EXCEPT !.phase = "inner",
                               !.firstRead = IF @ = "none" THEN "passed" ELSE @]]
    /\ UNCHANGED <<cancel_flags, flags, cret, regHist>>
    /\ UNCHANGED storeVars

\* read, lines 163-165: the flag load; a set flag ends the attempt with
\* io::ErrorKind::Interrupted
ReadCheck(c) ==
    /\ up[c].pc = "streaming" /\ up[c].phase = "check"
    /\ up' = [up EXCEPT ![c] =
                IF flags[up[c].flag]
                THEN [@ EXCEPT !.phase = "interrupted",
                               !.firstRead = IF @ = "none" THEN "cancelled" ELSE @]
                ELSE [@ EXCEPT !.phase = "inner",
                               !.firstRead = IF @ = "none" THEN "passed" ELSE @]]
    /\ UNCHANGED <<cancel_flags, flags, cret, regHist>>
    /\ UNCHANGED storeVars

\* send drives the reader with a copy loop, and a copy loop takes
\* ErrorKind::Interrupted as "call read again"
Retry(c) ==
    /\ up[c].pc = "streaming" /\ up[c].phase = "interrupted"
    /\ up' = [up EXCEPT ![c] = [@ EXCEPT !.phase = "check"]]
    /\ UNCHANGED <<cancel_flags, flags, cret, regHist>>
    /\ UNCHANGED storeVars

\* a read that loads the flag once more after the inner read and drops the
\* chunk when the flag was set meanwhile
ReadInnerRecheck(c, buf, wrote) ==
    /\ up[c].pc = "streaming" /\ up[c].phase = "inner"
    /\ LET u == up[c]
           read == Min(buf, u.total - u.pos)
       IN up' = [up EXCEPT ![c] =
                   IF flags[u.flag] THEN [u EXCEPT !.phase = "interrupted"]
                   ELSE IF read = 0
                   THEN [Emitted(u, TRUE) EXCEPT !.pc = "responding", !.phase = "done"]
                   ELSE LET a == [u EXCEPT !.pos = u.pos + read, !.sent = u.sent + read]
                            e == IF a.sent - a.last_emit >= emit_every \/ a.sent >= a.total
                                 THEN Emitted(a, a.sent >= a.total)
                                 ELSE a
                        IN IF wrote
                           THEN [e EXCEPT !.delivered = @ + read, !.phase = "check"]
                           ELSE Closed(e, "err_transport")]
    /\ UNCHANGED <<cancel_flags, flags, cret, regHist>>
    /\ UNCHANGED storeVars

\* read, lines 166-175: the inner read, the accounting and the progress event;
\* the transport then writes the chunk that read returned to the connection
ReadInner(c, buf, wrote) ==
    /\ up[c].pc = "streaming" /\ up[c].phase = "inner"
    /\ LET u == up[c]
           read == Min(buf, u.total - u.pos)
       IN up' = [up EXCEPT ![c] =
                   IF read = 0
                   THEN [Emitted(u, TRUE) EXCEPT !.pc = "responding", !.phase = "done"]
                   ELSE LET a == [u EXCEPT !.pos = u.pos + read, !.sent = u.sent + read]
                            e == IF a.sent - a.last_emit >= emit_every \/ a.sent >= a.total
                                 THEN Emitted(a, a.sent >= a.total)
                                 ELSE a
                        IN IF wrote
                           THEN [e EXCEPT !.delivered = @ + read, !.phase = "check"]
                           ELSE Closed(e, "err_transport")]
    /\ UNCHANGED <<cancel_flags, flags, cret, regHist>>
    /\ UNCHANGED storeVars

Outcomes == {"ok", "err_transport", "err_parse"}

\* the response: send, into_string and from_str each end the closure
Respond(c, outcome) ==
    /\ up[c].pc = "responding"
    /\ up' = [up EXCEPT ![c] = Closed(@, outcome)]
    /\ UNCHANGED <<cancel_flags, flags, cret, regHist>>
    /\ UNCHANGED storeVars

\* the result is returned with `?` before remove: only a success reaches remove
RemoveOnSuccessOnly(c) ==
    /\ up[c].pc \in {"completed", "failed"}
    /\ IF up[c].result = "ok"
       THEN /\ remove(up[c].id)
            /\ up' = [up EXCEPT ![c] = Returned(@)]
       ELSE /\ up' = [up EXCEPT ![c] = [Returned(@) EXCEPT !.removes = 0]]
            /\ UNCHANGED <<cancel_flags, flags, regHist>>
    /\ UNCHANGED cret
    /\ UNCHANGED storeVars

\* state.remove(&upload_id), then the result is returned
Remove(c) ==
    /\ up[c].pc \in {"completed", "failed"}
    /\ remove(up[c].id)
    /\ up' = [up EXCEPT ![c] = Returned(@)]
    /\ UNCHANGED cret
    /\ UNCHANGED storeVars

----------------------------------------------------------------------------
(* Specifications *)

Init ==
    /\ cache = {}
    /\ queue = {}
    /\ seq = 0
    /\ ret = Ret("none", None, None)
    /\ lastSet = [k \in Keys |-> None]
    /\ addLog = <<>>
    /\ delLog = {}
    /\ nLive = 0
    /\ poisoned = FALSE
    /\ lock = 0
    /\ lastRowid = 0
    /\ qa = [t \in Threads |-> IdleAdd]
    /\ cancel_flags = [i \in UploadIds |-> 0]
    /\ flags = <<>>
    /\ up = [c \in Calls |-> IdleCall]
    /\ cret = [id |-> "", val |-> FALSE]
    /\ regHist = [i \in UploadIds |-> "none"]

CacheGet == \E k \in Keys : cache_get(k) /\ UNCHANGED uploadVars

CacheSet == \E k \in Keys, v \in Values, now \in Times :
                cache_set(k, v, now) /\ UNCHANGED uploadVars

CacheDelete == \E k \in Keys : cache_delete(k) /\ UNCHANGED uploadVars

CacheDeletePrefix == \E p \in Prefixes : cache_delete_prefix(p) /\ UNCHANGED uploadVars

QueueAdd == \E in \in JobInputs, now \in Times : queue_add(in, now) /\ UNCHANGED uploadVars

QueueList == \E l \in Limits : queue_list(l) /\ UNCHANGED uploadVars

QueueDelete == \E id \in 1..(MaxAdds + 1) : queue_delete(id) /\ UNCHANGED uploadVars

QueueClear == queue_clear /\ UNCHANGED uploadVars

QueueCount == queue_count /\ UNCHANGED uploadVars

UploadStart == \E c \in Calls, id \in UploadIds, e \in BOOLEAN :
                   \E total \in TotalsOf(c) : Start(c, id, total, e)

UploadBegin == \E c \in Calls : Begin(c)

UploadConnect == \E c \in Calls, ok \in BOOLEAN : Connect(c, ok)

UploadReadCheck == \E c \in Calls : ReadCheck(c)

UploadRetry == \E c \in Calls : Retry(c)

UploadReadInner == \E c \in Calls, buf \in BufSizes, w \in BOOLEAN : ReadInner(c, buf, w)

UploadRespond == \E c \in Calls, o \in Outcomes : Respond(c, o)

UploadRemove == \E c \in Calls : Remove(c)

CancelUpload == \E id \in UploadIds : cancel_upload(id)

NextCache == CacheGet \/ CacheSet \/ CacheDelete \/ CacheDeletePrefix

NextQueue == QueueAdd \/ QueueList \/ QueueDelete \/ QueueClear \/ QueueCount

NextUpload == UploadStart \/ UploadBegin \/ UploadConnect \/ UploadReadCheck
              \/ UploadRetry \/ UploadReadInner
              \/ UploadRespond \/ UploadRemove \/ CancelUpload

SpecCache == Init /\ [][NextCache]_vars

SpecQueue == Init /\ [][NextQueue]_vars

SpecUpload == Init /\ [][NextUpload]_vars

\* queue_add step by step in several threads, next to the commands that remove jobs
QueueAddLock == \E t \in Threads, in \in JobInputs, now \in Times : AddLock(t, in, now)

QueueAddInsert == \E t \in Threads : AddInsert(t)

QueueAddRowid == \E t \in Threads : AddRowid(t)

QueueAddReturn == \E t \in Threads : AddReturn(t)

NextAdd == QueueAddLock \/ QueueAddInsert \/ QueueAddRowid \/ QueueAddReturn
           \/ QueueDelete \/ QueueClear

SpecAdd == Init /\ [][NextAdd]_vars

----------------------------------------------------------------------------
(* Claims about local_cache, checked under SpecCache *)

RowsOf(key) == {r \in cache : r.key = key}

\* C1: the cache holds at most one entry per key, and cache_get(key) returns
\* exactly the value of the most recent cache_set(key, v) that no later
\* cache_delete(key) or cache_delete_prefix(p), p a literal prefix of key,
\* covers; it returns absent when there is no such cache_set.
C1_LastWriteWins ==
    /\ \A k \in Keys : Cardinality(RowsOf(k)) <= 1
    /\ ret.op = "cache_get" =>
         IF lastSet[ret.arg] = None THEN ret.val = None
         ELSE ret.val # None /\ ret.val[1].value = lastSet[ret.arg][1]

\* C2: cache_delete_prefix(p) removes exactly the rows whose key starts with
\* p as a literal, case-sensitive string and leaves every other row as it was.
C2_ExactPrefix ==
    [][ret'.op = "cache_delete_prefix" =>
         cache' = {r \in cache : ~StartsWith(r.key, ret'.arg)}]_vars

----------------------------------------------------------------------------
(* Claims about sync_queue, checked under SpecQueue *)

\* C3: every id returned by queue_add is strictly greater than every id an
\* earlier queue_add returned, whatever queue_delete and queue_clear did in between.
C3_IdsStrictlyIncrease ==
    \A i, j \in 1..Len(addLog) : i < j => addLog[i] < addLog[j]

\* queue_add has just returned an id although the job with the largest id so far was gone
C3_Witness ==
    /\ ret.op = "queue_add"
    /\ Len(addLog) >= 2
    /\ addLog[Len(addLog) - 1] \notin Ids(queue)

ListedIds(val) == {val[i].id : i \in DOMAIN val}

\* C4 as stated: no queue_list result contains an id that an earlier
\* queue_delete(id) returned Ok for, and queue_count is the number of jobs
\* added and not yet removed.
C4_DeletedNeverListed ==
    /\ ret.op = "queue_list" => \A d \in delLog : d.id \notin ListedIds(ret.val)
    /\ ret.op = "queue_count" => ret.val = nLive

\* C4 amended: no queue_list result contains an id that queue_add had issued
\* and an earlier queue_delete(id) then returned Ok for, and queue_count is the
\* number of jobs added and not yet removed.
C4_IssuedDeletedNeverListed ==
    /\ ret.op = "queue_list" =>
         \A d \in delLog : d.issued => d.id \notin ListedIds(ret.val)
    /\ ret.op = "queue_count" => ret.val = nLive

\* adds yielding 1, 2, 3, then delete(2): the list is [1, 3]
C4_Witness ==
    /\ ret.op = "queue_list" /\ ret.arg = None
    /\ addLog = <<1, 2, 3>>
    /\ delLog = {[id |-> 2, issued |-> TRUE]}
    /\ Len(ret.val) = 2 /\ ret.val[1].id = 1 /\ ret.val[2].id = 3
    /\ nLive = 2

\* what queue_list(limit) has to return for the rows of the queue
ListedOk(val, limit, rows) ==
    LET n == Min(IF limit = None THEN 200 ELSE limit[1], Cardinality(rows))
    IN /\ DOMAIN val = 1..n
       /\ \A i \in 1..(n - 1) : val[i].id < val[i + 1].id
       /\ \A i \in 1..n : \E r \in rows :
            /\ r.id = val[i].id /\ r.action = val[i].action /\ r.method = val[i].method
            /\ r.created_at = val[i].created_at
            /\ r.params = to_string(val[i].params)
            /\ r.payload = to_string(val[i].payload)
       /\ \A r \in rows : r.id \notin ListedIds(val) => \A i \in 1..n : val[i].id < r.id

\* C6: queue_list(limit) returns the min(limit, count) jobs with the smallest
\* ids in strictly ascending id order (limit 200 when omitted) and leaves the
\* queue as it was.
C6_ListOldestFirst ==
    [][ret'.op = "queue_list" => queue' = queue /\ ListedOk(ret'.val, ret'.arg, queue)]_vars

\* a list cut by its limit: three jobs queued, two listed
C6_Witness ==
    /\ ret.op = "queue_list" /\ ret.arg = Some(2)
    /\ Cardinality(queue) = 3
    /\ Len(ret.val) = 2

----------------------------------------------------------------------------
(* Claims about the cancellation registry and the uploads, checked under SpecUpload *)

\* C7: cancel(id) returns true exactly when the last registry operation on id
\* was register (an entry is registered and not yet removed); it never changes
\* the map, and when it returns false it changes no flag; remove of an id
\* that has no entry changes nothing.
C7_CancelIffRegistered ==
    [][\A id \in UploadIds :
         /\ cancel_upload(id) =>
              /\ cret'.val <=> (regHist[id] = "register")
              /\ cancel_flags' = cancel_flags
              /\ ~cret'.val => flags' = flags
         /\ (regHist[id] # "register" /\ \E c \in Calls : up[c].id = id /\ Remove(c)) =>
              cancel_flags' = cancel_flags /\ flags' = flags]_vars

\* cancel(id) has returned false for an id that was registered and then removed
C7_Witness ==
    /\ cret = [id |-> "u1", val |-> FALSE]
    /\ regHist["u1"] = "remove"
    /\ \E c \in Calls : up[c].id = "u1" /\ up[c].pc = "removed"

FlagSet(u) == u.flag # 0 /\ flags[u.flag]

\* C8: when the flag of an upload is set before its first read attempt, that
\* attempt ends in the cancellation error; the byte source is then never read,
\* no byte reaches the transport, no progress event is emitted and the call
\* reports no transport failure.
C8_CancelledBeforeFirstRead ==
    [][\A c \in Calls :
         /\ ( /\ up[c].pc = "streaming" /\ up[c].phase = "check"
              /\ up[c].firstRead = "none" /\ FlagSet(up[c])
              /\ up'[c] # up[c] ) =>
                up'[c].firstRead = "cancelled" /\ up'[c].phase = "interrupted"
         /\ up'[c].firstRead = "cancelled" =>
              /\ up'[c].pos = 0 /\ up'[c].sent = 0 /\ up'[c].delivered = 0
              /\ up'[c].events = <<>> /\ up'[c].result = "none"]_vars

\* the first read attempt of an upload has failed with the cancellation error
C8_Witness ==
    \E c \in Calls : up[c].pc = "streaming" /\ up[c].firstRead = "cancelled"

\* the states of the per-upload state machine
Stage(u) ==
    CASE u.pc \in {"idle", "rejected"} -> "None"
      [] u.pc = "registered" -> "Registered"
      [] u.pc \in {"streaming", "responding"} -> "Streaming"
      [] u.pc = "completed" -> "Completed"
      [] u.pc = "failed" -> "Failed"
      [] u.pc = "removed" -> "Removed"

StageOrder ==
    { <<"None", "Registered">>, <<"Registered", "Streaming">>,
      <<"Streaming", "Completed">>, <<"Streaming", "Cancelled">>, <<"Streaming", "Failed">>,
      <<"Completed", "Removed">>, <<"Cancelled", "Removed">>, <<"Failed", "Removed">> }

CallStep(c) ==
    \/ Begin(c)
    \/ \E ok \in BOOLEAN : Connect(c, ok)
    \/ ReadCheck(c)
    \/ Retry(c)
    \/ \E buf \in BufSizes, w \in BOOLEAN : ReadInner(c, buf, w)
    \/ \E o \in Outcomes : Respond(c, o)
    \/ Remove(c)

\* every call that has started keeps being scheduled
FairUpload == Init /\ [][NextUpload]_vars /\ \A c \in Calls : WF_vars(CallStep(c))

\* C10: an upload whose flag is set while it is streaming eventually returns
\* to its caller, its entry removed.
C10_CancelledUploadReturns ==
    \A c \in Calls :
        (up[c].pc = "streaming" /\ FlagSet(up[c])) ~> (up[c].pc = "removed")

----------------------------------------------------------------------------
(* The whole program: every command, each over the smallest inputs *)

OneKey == <<"a", "/">>

OneJob == [action |-> "create", payload |-> Nested, method |-> None, params |-> None]

AnyCacheGet == cache_get(OneKey) /\ UNCHANGED uploadVars

AnyCacheSet == cache_set(OneKey, EmptyArr, 0) /\ UNCHANGED uploadVars

AnyCacheDelete == cache_delete(OneKey) /\ UNCHANGED uploadVars

AnyCacheDeletePrefix == cache_delete_prefix(<<"a">>) /\ UNCHANGED uploadVars

AnyQueueAdd == queue_add(OneJob, 0) /\ UNCHANGED uploadVars

AnyQueueList == \E l \in {None, Some(1)} : queue_list(l) /\ UNCHANGED uploadVars

AnyQueueDelete == \E id \in {1, 2} : queue_delete(id) /\ UNCHANGED uploadVars

AnyUploadStart == \E e \in BOOLEAN : Start(1, "u1", 100, e)

AnyUploadBegin == Begin(1)

AnyUploadConnect == \E ok \in BOOLEAN : Connect(1, ok)

AnyUploadReadCheck == ReadCheck(1)

AnyUploadRetry == Retry(1)

AnyUploadReadInner == \E w \in BOOLEAN : ReadInner(1, 65536, w)

AnyUploadRespond == \E o \in Outcomes : Respond(1, o)

AnyUploadRemove == Remove(1)

AnyCancelUpload == cancel_upload("u1")

Next ==
    \/ AnyCacheGet \/ AnyCacheSet \/ AnyCacheDelete \/ AnyCacheDeletePrefix
    \/ AnyQueueAdd \/ AnyQueueList \/ AnyQueueDelete \/ QueueClear \/ QueueCount
    \/ Poison
    \/ AnyUploadStart \/ AnyUploadBegin \/ AnyUploadConnect \/ AnyUploadReadCheck
    \/ AnyUploadRetry \/ AnyUploadReadInner \/ AnyUploadRespond \/ AnyUploadRemove \/ AnyCancelUpload

Spec == Init /\ [][Next]_vars

\* C5: a queued job stays in the queue with all its fields as they were
\* through every step that is neither queue_delete of its id nor queue_clear.
C5_JobPersists ==
    [][\A j \in queue : j \in queue' \/ queue_delete(j.id) \/ queue_clear]_vars

\* a job added first is still queued, unchanged, after a later add, a delete
\* of another id, a cache write and an upload that ran to its end
C5_Witness ==
    /\ \E j \in queue : j.id = 1 /\ j.action = "create" /\ j.method = "POST"
    /\ Len(addLog) = 2
    /\ [id |-> 2, issued |-> TRUE] \in delLog
    /\ cache # {}
    /\ up[1].pc = "removed"
    /\ ret.op = "queue_count"

----------------------------------------------------------------------------
(* The clock of cache_set *)

\* C11: when cache_set overwrites the entry of a key, the updated_at it stores
\* is not smaller than the updated_at the entry had, whatever the clock read.
C11_UpdatedAtNonDecreasing ==
    [][\A old \in cache, new \in cache' :
          (ret'.op = "cache_set" /\ ret'.arg = old.key /\ new.key = old.key)
              => new.updated_at >= old.updated_at]_vars

----------------------------------------------------------------------------
(* The poisoned guard *)

StoreCommand ==
    \/ AnyCacheGet \/ AnyCacheSet \/ AnyCacheDelete \/ AnyCacheDeletePrefix
    \/ AnyQueueAdd \/ AnyQueueList \/ AnyQueueDelete \/ QueueClear \/ QueueCount

\* C12: once the guard of the store is poisoned it stays poisoned; every cache
\* and queue command then returns the error "Database lock poisoned", and no
\* step changes the cache, the queue or the id sequence.
C12_PoisonedStoreFailsClosed ==
    [][poisoned =>
          /\ poisoned'
          /\ cache' = cache /\ queue' = queue /\ seq' = seq /\ lastRowid' = lastRowid
          /\ StoreCommand => (ret'.op = "error" /\ ret'.val = "Database lock poisoned")
          /\ ret' # ret => ret'.op = "error"]_vars

\* a store that holds an entry and a job is poisoned, and queue_clear then
\* returned the error
C12_Witness ==
    /\ poisoned
    /\ cache # {} /\ queue # {}
    /\ ret.op = "error" /\ ret.arg = <<"queue_clear", None>>

----------------------------------------------------------------------------
(* Cancellation and the reads of an upload *)

Waiting(u) == u.pc = "streaming" /\ u.phase \in {"check", "interrupted"}

\* C13: once the flag of an upload is set, every read attempt that starts
\* ends with the cancellation error and reads nothing: pos, sent, last_emit,
\* the events and the bytes delivered stay as they are.  A read that has
\* passed the flag check completes whether or not the flag is set by then:
\* the chunk it read is counted and handed to the transport, or it reports
\* the end of the stream.  So with the flag set, bytes are delivered only by
\* the one read that was past the check, and none after it.
C13_CancelAtReadBoundary ==
    [][\A c \in Calls :
          /\ (Waiting(up[c]) /\ FlagSet(up[c]))
                => /\ Waiting(up'[c])
                   /\ up'[c].flag = up[c].flag /\ flags'[up[c].flag]
                   /\ up'[c].pos = up[c].pos /\ up'[c].sent = up[c].sent
                   /\ up'[c].last_emit = up[c].last_emit
                   /\ up'[c].events = up[c].events
                   /\ up'[c].delivered = up[c].delivered
          /\ (up[c].pc = "streaming" /\ up[c].phase = "inner" /\ up'[c] # up[c])
                => /\ up'[c].phase # "interrupted"
                   /\ up'[c].pc \in {"streaming", "responding", "failed"}
                   /\ up'[c].pc = "responding" => up[c].pos = up[c].total
                   /\ up'[c].pc = "streaming"
                        => /\ up'[c].phase = "check"
                           /\ up'[c].pos > up[c].pos
                           /\ up'[c].sent - up[c].sent = up'[c].pos - up[c].pos
                           /\ up'[c].delivered - up[c].delivered = up'[c].pos - up[c].pos
          /\ (up[c].pc = "streaming" /\ FlagSet(up[c])
                  /\ up'[c].pc = "streaming" /\ up'[c].delivered # up[c].delivered)
                => up[c].phase = "inner" /\ Waiting(up'[c])]_vars

\* cancel_upload returned true and set the flag of an upload whose read, in
\* the middle of the body, is past the flag check
C13_Witness ==
    \E c \in Calls :
        /\ up[c].pc = "streaming" /\ up[c].phase = "inner"
        /\ up[c].pos > 0 /\ up[c].pos < up[c].total
        /\ FlagSet(up[c])
        /\ cret = [id |-> up[c].id, val |-> TRUE]

----------------------------------------------------------------------------
(* Progress events *)

Reading(u) == u.pc \in {"streaming", "responding"}

C14_Coalesced ==
    \A c \in Calls : Reading(up[c]) =>
        /\ up[c].sent - up[c].last_emit < emit_every
        /\ \A i \in 1..Len(up[c].events) :
              LET prev == IF i = 1 THEN 0 ELSE up[c].events[i - 1].loaded
                  e == up[c].events[i]
              IN /\ e.loaded >= prev
                 /\ ~e.done => e.loaded - prev >= emit_every

C14_EmitIff ==
    \A c \in Calls :
        (up[c].pc = "streaming" /\ up[c].phase = "inner"
            /\ up'[c].pc = "streaming" /\ up'[c].sent > up[c].sent)
            => /\ Len(up'[c].events) \in {Len(up[c].events), Len(up[c].events) + 1}
               /\ Len(up'[c].events) = Len(up[c].events) + 1
                    <=> \/ up'[c].sent - up[c].last_emit >= emit_every
                        \/ up'[c].sent >= up[c].total

\* C14: a read that returned bytes emits a progress event exactly when the
\* bytes sent since the last event reach 64 KiB or sent reaches total; so
\* after each read less than 64 KiB is unreported, every event with
\* done = false reports at least 64 KiB more than the event before it, and
\* loaded never decreases from one event of an upload to the next.
C14_ProgressCoalescing == []C14_Coalesced /\ [][C14_EmitIff]_vars

\* a 70000-byte upload read in 32768-byte chunks: no event after the first
\* chunk, one at 65536 with done = false, one at 70000 with done = true
C14_Witness ==
    \E c \in Calls :
        /\ up[c].pc = "streaming" /\ up[c].total = 70000
        /\ Len(up[c].events) = 2
        /\ up[c].events[1] = [loaded |-> 65536, total |-> 70000, done |-> FALSE]
        /\ up[c].events[2] = [loaded |-> 70000, total |-> 70000, done |-> TRUE]

DoneEvents(u) == {i \in 1..Len(u.events) : u.events[i].done}

\* C15: an upload emits at most one event with done = true, that event
\* carries loaded = total and is the last event of the upload, and an upload
\* read to the end of the stream has emitted exactly one.
C15_DoneIsFinal ==
    \A c \in Calls : Reading(up[c]) =>
        /\ Cardinality(DoneEvents(up[c])) <= 1
        /\ \A i \in DoneEvents(up[c]) :
              i = Len(up[c].events) /\ up[c].events[i].loaded = up[c].total
        /\ up[c].pc = "responding" => Cardinality(DoneEvents(up[c])) = 1

----------------------------------------------------------------------------
(* The registry of cancellation flags *)

\* C16: register(id) creates a new flag, unset, makes it the entry of id in
\* place of any entry id had, and returns that flag; every flag that existed
\* keeps its value.  cancel(id) then writes no flag but the entry of id,
\* which is the flag registered last under id.
C16_RegisterFresh ==
    [][/\ \A c \in Calls :
            (up[c].pc = "idle" /\ up'[c].pc = "registered")
                => /\ up'[c].flag \notin 1..Len(flags)
                   /\ up'[c].flag \in 1..Len(flags')
                   /\ flags'[up'[c].flag] = FALSE
                   /\ cancel_flags'[up'[c].id] = up'[c].flag
                   /\ \A i \in 1..Len(flags) : flags'[i] = flags[i]
       /\ \A id \in UploadIds :
            cancel_upload(id)
                => /\ Registered(id) => flags'[cancel_flags[id]]
                   /\ \A i \in 1..Len(flags) :
                         flags'[i] # flags[i]
                            => /\ i = cancel_flags[id]
                               /\ \A c \in Calls : up[c].id = id => up[c].flag <= i]_vars

\* an id whose flag was cancelled is registered again: the old flag is still
\* set, the entry is the new flag, unset
C16_Witness ==
    /\ flags = <<TRUE, FALSE>>
    /\ up[1].id = up[2].id
    /\ up[1].flag = 1 /\ up[2].flag = 2
    /\ cancel_flags[up[2].id] = 2

\* C17: a flag starts unset when register creates it, only cancel changes
\* its value, and a flag that is set stays set through every later step
\* (register, cancel and remove of any id included).
C17_FlagMonotone ==
    [][/\ Len(flags') >= Len(flags)
       /\ \A i \in 1..Len(flags) :
            /\ flags[i] => flags'[i]
            /\ flags'[i] # flags[i] => \E id \in UploadIds : cancel_upload(id)
       /\ \A i \in (Len(flags) + 1)..Len(flags') :
            /\ flags'[i] = FALSE
            /\ \E c \in Calls : up[c].pc = "idle" /\ up'[c].flag = i]_vars

\* the flag of a finished upload was set, its entry was removed and its id
\* registered again: the old flag is still set
C17_Witness ==
    /\ Len(flags) = 2 /\ flags[1]
    /\ up[1].pc = "removed" /\ up[2].id = up[1].id
    /\ up[2].pc = "streaming"

\* the step is register, cancel or remove of this id
OpOn(id) ==
    \/ cancel_upload(id)
    \/ \E c \in Calls : up[c].pc = "idle" /\ up'[c].pc = "registered" /\ up'[c].id = id
    \/ \E c \in Calls : up[c].pc \in {"completed", "failed"} /\ up'[c].pc = "removed"
                          /\ up[c].id = id

\* C18: register, cancel and remove of one id leave the entry of every other
\* id and the value of its flag as they are; so cancelling one upload never
\* sets the flag that an upload with another id checks in its reads.
C18_IdsIndependent ==
    [][\A id \in UploadIds : OpOn(id) =>
          /\ \A o \in UploadIds \ {id} :
                /\ cancel_flags'[o] = cancel_flags[o]
                /\ Registered(o) => flags'[cancel_flags[o]] = flags[cancel_flags[o]]
          /\ \A c \in Calls :
                (up[c].id # id /\ up[c].flag # 0)
                    => /\ up'[c].flag = up[c].flag
                       /\ flags'[up[c].flag] = flags[up[c].flag]]_vars

\* two uploads with different ids ran together: one was cancelled and its
\* read failed, the other read its body to the end
C18_Witness ==
    \E c, d \in Calls :
        /\ up[c].id # up[d].id
        /\ up[c].pc = "streaming" /\ up[c].phase = "interrupted" /\ FlagSet(up[c])
        /\ up[d].pc = "responding" /\ ~FlagSet(up[d])

----------------------------------------------------------------------------
(* queue_add from several threads *)

C19_Distinct ==
    \A i, j \in 1..Len(addLog) : i # j => addLog[i] # addLog[j]

C19_OwnRow ==
    \A t \in Threads :
        (qa[t].pc = "read" /\ qa'[t].pc = "idle")
            => /\ ret' = Ret("queue_add", qa[t].in, qa[t].id)
               /\ \E r \in queue' :
                     /\ r.id = ret'.val
                     /\ r.action = qa[t].in.action
                     /\ r.payload = to_string(qa[t].in.payload)
                     /\ r.created_at = qa[t].now

\* C19: queue_add calls that run in different threads each return the id of
\* the row that call inserted: the ids returned are pairwise distinct, and
\* at the moment a call returns its id the queue holds a row with that id
\* and with the action and payload of that call.
C19_ConcurrentAdds == []C19_Distinct /\ [][C19_OwnRow]_vars

\* both threads have returned from a queue_add, and both rows are queued
C19_Witness ==
    /\ qa[1].n >= 1 /\ qa[2].n >= 1
    /\ Len(addLog) = 2 /\ Cardinality(queue) = 2
    /\ ret.op = "queue_add"

----------------------------------------------------------------------------
(* Uploads that share an id *)

\* between the register of the call and its own remove
InProgress(u) == u.pc \in {"registered", "streaming", "responding", "completed", "failed"}

\* no other call has registered or removed the id of call c since c registered it
Sole(c) ==
    /\ regHist[up[c].id] = "register"
    /\ \A d \in Calls \ {c} :
          up[d].id = up[c].id => \/ up[d].pc = "rejected"
                                 \/ d < c /\ up[d].pc = "removed"

====
